---- MODULE Spec2Model ----
(***************************************************************************)
(* A model of the CSV graph importer (CsvImporter.h) and of the flow-mode  *)
(* part of DrawNetwork's main (DrawNetwork.cpp).                           *)
(*                                                                         *)
(* Three specifications share the variables:                               *)
(*   Spec      the importer, driven as the Graph class drives it:          *)
(*             nextVertex until it returns false, then nextEdge until it   *)
(*             returns false, reading attribute values after each edge;    *)
(*   SpecBand  the congestion level computation of DrawNetwork's main as a *)
(*             function of one edge's flow and capacity;                   *)
(*   SpecFlow  DrawNetwork's main in flow draw mode: the flow file reader  *)
(*             followed by the drawing loop.                               *)
(* A failed assert ends the process; it is modelled as the error of that   *)
(* name in err, after which no action is enabled.                          *)
(*                                                                         *)
(* Numbers that the code holds as double are held here as exact rationals  *)
(* with a fixed denominator: a length field in tenths (LenDen), an         *)
(* analysis period and a flow in halves (PeriodDen, FlowDen).  Halves are  *)
(* exact in binary floating point, and no quotient the model forms is      *)
(* close enough to a rounding boundary for the double result to differ.    *)
(***************************************************************************)
EXTENDS Integers, Sequences, FiniteSets, TLC

VARIABLES
  \* ---- CsvImporter ----
  periodArg,       \* constructor argument analysisPeriod (double), in 1/PeriodDen
  analysisPeriod,  \* member: const int analysisPeriod
  origToNewIds,    \* member: map from original vertex IDs to new IDs
  nextVertexId,    \* member: the next free vertex ID
  currentEdge,     \* member: the edge record read by the last nextEdge
  phase,           \* position of the caller: "vertices", "edges", "closed"
  result,          \* outcome of the last nextVertex/nextEdge call
  err,             \* the failed assertion, or "none"
  row,             \* the CSV row consumed by the last read_row
  vertexLog,       \* external ID and vertexId() after each successful nextVertex
  capValue,        \* last getValue<CapacityAttribute>() (<<>> = not asked)
  ttValue,         \* last getValue<TravelTimeAttribute>() (<<>> = not asked)
  \* ---- congestion level of one edge ----
  bandIn,          \* inputs: raw capacity, period, scaled capacity
  bandCur,         \* the last flow classified and its band
  bandPrev,        \* the flow classified before it and its band
  \* ---- DrawNetwork main, flow draw mode ----
  numEdges,          \* const auto numEdges
  drawIntermediates, \* const auto drawIntermediates
  period,            \* const auto period (double), in 1/PeriodDen
  capacity,          \* graph.capacity(e), by edge
  edgeFlows,         \* std::vector<double> edgeFlows, in 1/FlowDen
  iteration,         \* int iteration
  prevIteration,     \* int prevIteration
  flowRows,          \* the rows read_row has delivered so far
  pc,                \* position in main
  i,                 \* loop variable of the drawing loop
  calls              \* the drawing calls and progress messages, in order

impVars  == <<periodArg, analysisPeriod, origToNewIds, nextVertexId, currentEdge,
              phase, result, err, row, vertexLog, capValue, ttValue>>
bandVars == <<bandIn, bandCur, bandPrev>>
flowVars == <<numEdges, drawIntermediates, period, capacity, edgeFlows, iteration,
              prevIteration, flowRows, pc, i, calls>>
vars     == <<impVars, bandVars, flowVars>>

----------------------------------------------------------------------------
\* Bounds of the model.
NumExt     == 2     \* number of distinct external vertex IDs in the input
MaxPeriod  == 3     \* largest analysis period, in halves

\* Denominators of the fixed-point representation of doubles.
LenDen    == 10
PeriodDen == 2
FlowDen   == 2

ExtIds       == 10 .. (10 + NumExt - 1)
PeriodArgs   == 1 .. MaxPeriod
LengthFields == {-5, -3, 0, 15, 36000}   \* "-0.5", "-0.3", "0", "1.5", "3600"
CapFields    == {-1, 0, 3}
SpeedFields  == {-1, 0, 60}
EdgeRows     == [tail : ExtIds, head : ExtIds, length : LengthFields,
                 capacity : CapFields, speed : SpeedFields]

\* Conversions of a double outside the range of int, or of NaN, to int are
\* undefined: any of these values may come out.
UndefInt == {-2147483647 - 1, 0, 2147483647}

NoValue == <<>>
EmptyMap == [x \in {} |-> 0]

----------------------------------------------------------------------------
\* std::round of the rational n/d (d > 0): nearest integer, halves away from 0.
round(n, d) == IF n >= 0 THEN (2 * n + d) \div (2 * d)
               ELSE -((2 * (-n) + d) \div (2 * d))

\* Conversion double -> int of the positive rational n/d: the fraction is dropped.
truncToInt(n, d) == n \div d

\* vertexId returning the next free ID instead of the last assigned one
vertexId_M == nextVertexId

\* CsvImporter::vertexId
vertexId == nextVertexId - 1

\* CsvImporter::CsvImporter followed by init
ImpInit ==
  /\ periodArg \in PeriodArgs
  /\ analysisPeriod = truncToInt(periodArg, PeriodDen)
  /\ origToNewIds = EmptyMap
  /\ nextVertexId = 0
  /\ currentEdge = [tail |-> 0, head |-> 0, length |-> 0, capacity |-> 0,
                    freeFlowSpeed |-> 0]   \* never read before the first nextEdge
  /\ phase = "vertices"
  /\ result = "none"
  /\ err = "none"
  /\ row = NoValue
  /\ vertexLog = <<>>
  /\ capValue = NoValue
  /\ ttValue = NoValue

ImpIdle ==
  /\ periodArg = PeriodDen
  /\ analysisPeriod = 1
  /\ origToNewIds = EmptyMap
  /\ nextVertexId = 0
  /\ currentEdge = [tail |-> 0, head |-> 0, length |-> 0, capacity |-> 0,
                    freeFlowSpeed |-> 0]
  /\ phase = "closed"
  /\ result = "none"
  /\ err = "none"
  /\ row = NoValue
  /\ vertexLog = <<>>
  /\ capValue = NoValue
  /\ ttValue = NoValue

Running == err = "none"

\* nextVertex without the duplicate assertion: the map entry is overwritten
nextVertex_M(id) ==
  /\ phase = "vertices" /\ Running
  /\ row' = [id |-> id]
  /\ capValue' = NoValue /\ ttValue' = NoValue
  /\ origToNewIds' = [x \in DOMAIN origToNewIds \cup {id} |->
                        IF x = id THEN nextVertexId ELSE origToNewIds[x]]
  /\ nextVertexId' = nextVertexId + 1
  /\ vertexLog' = Append(vertexLog, [ext |-> id, id |-> vertexId'])
  /\ result' = "true"
  /\ err' = "none"
  /\ UNCHANGED <<periodArg, analysisPeriod, currentEdge, phase>>
  /\ UNCHANGED <<bandVars, flowVars>>

\* CsvImporter::nextVertex, read_row delivering a row with external ID id
nextVertex(id) ==
  /\ phase = "vertices" /\ Running
  /\ row' = [id |-> id]
  /\ capValue' = NoValue /\ ttValue' = NoValue
  /\ IF id \in DOMAIN origToNewIds
       THEN /\ err' = "duplicate-vertex"
            /\ result' = "abort"
            /\ UNCHANGED <<origToNewIds, nextVertexId, vertexLog>>
       ELSE /\ origToNewIds' = [x \in DOMAIN origToNewIds \cup {id} |->
                                  IF x = id THEN nextVertexId ELSE origToNewIds[x]]
            /\ nextVertexId' = nextVertexId + 1
            /\ vertexLog' = Append(vertexLog, [ext |-> id, id |-> vertexId'])
            /\ result' = "true"
            /\ err' = "none"
  /\ UNCHANGED <<periodArg, analysisPeriod, currentEdge, phase>>
  /\ UNCHANGED <<bandVars, flowVars>>

\* CsvImporter::nextVertex, read_row finding no more rows
nextVertexEof ==
  /\ phase = "vertices" /\ Running
  /\ result' = "false"
  /\ phase' = "edges"
  /\ row' = NoValue
  /\ UNCHANGED <<periodArg, analysisPeriod, origToNewIds, nextVertexId, currentEdge,
                 err, vertexLog, capValue, ttValue>>
  /\ UNCHANGED <<bandVars, flowVars>>

\* nextEdge without the assertion on the head vertex
edgeError_M(r) ==
  IF r.capacity < 0 THEN "negative-field"
  ELSE IF r.speed < 0 THEN "negative-field"
  ELSE IF r.tail \notin DOMAIN origToNewIds THEN "unresolved-endpoint"
  ELSE IF r.head \in DOMAIN origToNewIds /\ round(r.length, LenDen) < 0
    THEN "negative-field"
  ELSE "none"

\* The assertion of CsvImporter::nextEdge that fails on row r, in the order
\* the code evaluates them, or "none".
edgeError(r) ==
  IF r.capacity < 0 THEN "negative-field"
  ELSE IF r.speed < 0 THEN "negative-field"
  ELSE IF r.tail \notin DOMAIN origToNewIds THEN "unresolved-endpoint"
  ELSE IF r.head \notin DOMAIN origToNewIds THEN "unresolved-endpoint"
  ELSE IF round(r.length, LenDen) < 0 THEN "negative-field"
  ELSE "none"

\* currentEdge when nextEdge has run on row r up to its first failing assertion
\* (to the end if none fails): read_row stores tail, head and capacity, then
\* the speed, the resolved endpoints and the length are stored in this order.
edgeRecord(r) ==
  LET e1 == [currentEdge EXCEPT !.tail = r.tail, !.head = r.head,
                                !.capacity = r.capacity]
      e2 == [e1 EXCEPT !.freeFlowSpeed = r.speed]
      e3 == [e2 EXCEPT !.tail = origToNewIds[r.tail]]
      e4 == [e3 EXCEPT !.head = origToNewIds[r.head]]
      e5 == [e4 EXCEPT !.length = round(r.length, LenDen)]
  IN  IF r.capacity < 0 THEN e1
      ELSE IF r.speed < 0 \/ r.tail \notin DOMAIN origToNewIds THEN e2
      ELSE IF r.head \notin DOMAIN origToNewIds THEN e3
      ELSE e5

\* CsvImporter::nextEdge, read_row delivering row r
nextEdge(r) ==
  /\ phase = "edges" /\ Running
  /\ row' = r
  /\ capValue' = NoValue /\ ttValue' = NoValue
  /\ err' = edgeError(r)
  /\ currentEdge' = edgeRecord(r)
  /\ result' = IF edgeError(r) = "none" THEN "true" ELSE "abort"
  /\ UNCHANGED <<periodArg, analysisPeriod, origToNewIds, nextVertexId, phase, vertexLog>>
  /\ UNCHANGED <<bandVars, flowVars>>

\* CsvImporter::nextEdge, read_row finding no more rows
nextEdgeEof ==
  /\ phase = "edges" /\ Running
  /\ result' = "false"
  /\ phase' = "closed"
  /\ row' = NoValue
  /\ capValue' = NoValue /\ ttValue' = NoValue
  /\ UNCHANGED <<periodArg, analysisPeriod, origToNewIds, nextVertexId, currentEdge,
                 err, vertexLog>>
  /\ UNCHANGED <<bandVars, flowVars>>

\* An edge has just been read successfully: the caller fetches its attributes.
EdgeRead == phase = "edges" /\ result = "true" /\ Running

\* The values getValue<CapacityAttribute> can return.
capacityValues ==
  IF analysisPeriod = 0 THEN UndefInt      \* round(c / 0) is inf or NaN
  ELSE {round(currentEdge.capacity, analysisPeriod)}

\* The values getValue<TravelTimeAttribute> can return.
travelTimeValues ==
  IF currentEdge.freeFlowSpeed = 0 THEN UndefInt   \* round(36 l / 0) is inf or NaN
  ELSE {round(36 * currentEdge.length, currentEdge.freeFlowSpeed)}

\* CsvImporter::getValue<CapacityAttribute>
getCapacity ==
  /\ EdgeRead /\ capValue = NoValue
  /\ \E v \in capacityValues : capValue' = <<v>>
  /\ UNCHANGED <<periodArg, analysisPeriod, origToNewIds, nextVertexId, currentEdge,
                 phase, result, err, row, vertexLog, ttValue>>
  /\ UNCHANGED <<bandVars, flowVars>>

\* CsvImporter::getValue<TravelTimeAttribute>
getTravelTime ==
  /\ EdgeRead /\ ttValue = NoValue
  /\ \E v \in travelTimeValues : ttValue' = <<v>>
  /\ UNCHANGED <<periodArg, analysisPeriod, origToNewIds, nextVertexId, currentEdge,
                 phase, result, err, row, vertexLog, capValue>>
  /\ UNCHANGED <<bandVars, flowVars>>

ImpNext ==
  \/ \E id \in ExtIds : nextVertex(id)
  \/ nextVertexEof
  \/ \E r \in EdgeRows : nextEdge(r)
  \/ nextEdgeEof
  \/ getCapacity
  \/ getTravelTime

----------------------------------------------------------------------------
\* DrawNetwork main: the congestion level of one edge.

MaxCap  == 5      \* largest raw edge capacity
MaxFlow == 40     \* largest edge flow, in halves

\* REDS_9CLASS.size(): the nine-class palette of Visualization/Color.h
REDS_9CLASS_size == 9

RawCaps     == 0 .. MaxCap
DrawPeriods == -1 .. MaxPeriod      \* option -p, any double
Flows       == 0 .. MaxFlow

Max(a, b) == IF a >= b THEN a ELSE b
Min(a, b) == IF a <= b THEN a ELSE b

\* std::max(std::round(period * graph.capacity(e)), 1.0), p in 1/PeriodDen
scaledCapacity(p, c) == Max(round(p * c, PeriodDen), 1)

\* the level computed with a step of 25% instead of 20%
congestionLevel_M(flow, cap) == ((100 \div 25) * flow) \div (FlowDen * cap)

\* const size_t level = 100 / 20 * flow / capacity, flow in 1/FlowDen;
\* 100 / 20 is an integer division, the conversion to size_t drops the fraction.
congestionLevel(flow, cap) == ((100 \div 20) * flow) \div (FlowDen * cap)

\* the level clamped one too high
bandIndex_M(flow, cap) == Min(congestionLevel(flow, cap), REDS_9CLASS_size - 1)

\* std::min(level, REDS_9CLASS.size() - 2): the index into congestionLevels
bandIndex(flow, cap) == Min(congestionLevel(flow, cap), REDS_9CLASS_size - 2)

\* congestionLevels.size()
numLevels == REDS_9CLASS_size - 1

BandInit ==
  /\ bandIn \in [rawCap : RawCaps, period : DrawPeriods, cap : {0}, scaled : {FALSE}]
  /\ bandCur = NoValue
  /\ bandPrev = NoValue

BandIdle ==
  /\ bandIn = [rawCap |-> 0, period |-> PeriodDen, cap |-> 0, scaled |-> FALSE]
  /\ bandCur = NoValue
  /\ bandPrev = NoValue

\* graph.capacity(e) = std::max(std::round(period * graph.capacity(e)), 1.0)
scaleCapacity ==
  /\ ~bandIn.scaled
  /\ bandIn' = [bandIn EXCEPT !.cap = scaledCapacity(bandIn.period, bandIn.rawCap),
                              !.scaled = TRUE]
  /\ UNCHANGED <<bandCur, bandPrev>>
  /\ UNCHANGED <<impVars, flowVars>>

\* the body of FORALL_VALID_EDGES for an edge with flow f
classify(f) ==
  /\ bandIn.scaled
  /\ bandCur' = <<f, bandIndex(f, bandIn.cap)>>
  /\ bandPrev' = bandCur
  /\ UNCHANGED bandIn
  /\ UNCHANGED <<impVars, flowVars>>

BandNext ==
  \/ scaleCapacity
  \/ \E f \in Flows : classify(f)

----------------------------------------------------------------------------
\* DrawNetwork main, flow draw mode.

MaxEdges == 2     \* largest number of edges of the graph
MaxRows  == 6     \* largest number of rows of the flow file
MaxIter  == 3     \* largest iteration number in a row

RowIters  == 0 .. MaxIter
RowFlows  == {-1, 0, 3}         \* "-0.5", "0", "1.5"
FlowCaps  == {0, 2}
FlowPeriods == {1, 2}
\* int iteration is read uninitialized when the flow file has no rows
UndefIter == {-1, 0, 2}

Call(op, arg) == [op |-> op, arg |-> arg]

FlowInit ==
  /\ numEdges \in 0 .. MaxEdges
  /\ drawIntermediates \in BOOLEAN
  /\ period \in FlowPeriods
  /\ capacity \in [0 .. numEdges - 1 -> FlowCaps]
  /\ edgeFlows = <<>>
  /\ iteration \in UndefIter
  /\ prevIteration = 1
  /\ flowRows = <<>>
  /\ pc = "read"
  /\ i = 0
  /\ calls = <<>>

FlowIdle ==
  /\ numEdges = 0
  /\ drawIntermediates = FALSE
  /\ period = PeriodDen
  /\ capacity = EmptyMap
  /\ edgeFlows = <<>>
  /\ iteration = 0
  /\ prevIteration = 1
  /\ flowRows = <<>>
  /\ pc = "done"
  /\ i = 0
  /\ calls = <<>>

\* Does the row (it, fl) make the reader throw "flow file corrupt"?
rowCorrupt(it, fl) ==
  \/ it <= 0 \/ fl < 0
  \/ it # prevIteration /\ Len(edgeFlows) # prevIteration * numEdges

\* while (flowFile.read_row(iteration, flow)) { ... }, for a row (it, fl)
readRow(it, fl) ==
  /\ pc = "read"
  /\ Len(flowRows) < MaxRows
  /\ flowRows' = Append(flowRows, [iteration |-> it, flow |-> fl])
  /\ iteration' = it
  /\ IF rowCorrupt(it, fl)
       THEN /\ pc' = "failed"
            /\ UNCHANGED <<prevIteration, edgeFlows>>
       ELSE /\ prevIteration' = IF it # prevIteration THEN prevIteration + 1
                                ELSE prevIteration
            /\ edgeFlows' = Append(edgeFlows, fl)
            /\ pc' = "read"
  /\ UNCHANGED <<numEdges, drawIntermediates, period, capacity, i, calls>>
  /\ UNCHANGED <<impVars, bandVars>>

\* read_row finds no more rows; the check after the loop
readEof ==
  /\ pc = "read"
  /\ pc' = IF Len(edgeFlows) # iteration * numEdges THEN "failed" ELSE "scale"
  /\ UNCHANGED <<numEdges, drawIntermediates, period, capacity, edgeFlows, iteration,
                 prevIteration, flowRows, i, calls>>
  /\ UNCHANGED <<impVars, bandVars>>

\* FORALL_EDGES(graph, e) graph.capacity(e) = std::max(std::round(...), 1.0)
scaleCapacities ==
  /\ pc = "scale"
  /\ capacity' = [e \in DOMAIN capacity |-> scaledCapacity(period, capacity[e])]
  /\ pc' = "draw"
  /\ i' = 1
  /\ UNCHANGED <<numEdges, drawIntermediates, period, edgeFlows, iteration,
                 prevIteration, flowRows, calls>>
  /\ UNCHANGED <<impVars, bandVars>>

\* the flow of the edge read from the rows of the first iteration, whatever
\* the iteration drawn (firstEdge never advanced)
flowOf_M(it, e) == edgeFlows[e + 1]

\* edgeFlows[firstEdge + graph.edgeId(e)] in iteration it; edgeId(e) = e
flowOf(it, e) == edgeFlows[(it - 1) * numEdges + e + 1]

\* congestionLevels[j] after the FORALL_VALID_EDGES loop of iteration it:
\* the edges of level j, in edge order
RECURSIVE levelEdges(_, _, _)
levelEdges(it, j, e) ==
  IF e >= numEdges THEN <<>>
  ELSE (IF bandIndex(flowOf(it, e), capacity[e]) = j THEN <<e>> ELSE <<>>)
       \o levelEdges(it, j, e + 1)

\* drawEdge: line width by lane count, then the line(s) of the edge
RECURSIVE drawEdges(_)
drawEdges(es) ==
  IF es = <<>> THEN <<>>
  ELSE <<Call("setLineWidth", Head(es)), Call("drawLine", Head(es))>>
       \o drawEdges(Tail(es))

\* for (int j = 0; j < congestionLevels.size(); ++j) { setColor; drawEdge... }
RECURSIVE drawLevels(_, _)
drawLevels(it, j) ==
  IF j >= numLevels THEN <<>>
  ELSE <<Call("setColor", j + 1)>> \o drawEdges(levelEdges(it, j, 0))
       \o drawLevels(it, j + 1)

\* a page break before every flow pattern, the first included
pageBreak_M(it) == <<Call("newPage", 0)>>

\* if (i != 1) graphic->newPage();
pageBreak(it) == IF it # 1 THEN <<Call("newPage", 0)>> ELSE <<>>

\* if (!(drawIntermediates || i == 1 || i == iteration)) continue;
skipped(it) == ~(drawIntermediates \/ it = 1 \/ it = iteration)

\* one pass of the drawing loop that takes the continue
skipIteration ==
  /\ pc = "draw" /\ i <= iteration /\ skipped(i)
  /\ i' = i + 1
  /\ UNCHANGED <<numEdges, drawIntermediates, period, capacity, edgeFlows, iteration,
                 prevIteration, flowRows, pc, calls>>
  /\ UNCHANGED <<impVars, bandVars>>

\* one pass of the drawing loop that draws the flow pattern of iteration i
drawIteration ==
  /\ pc = "draw" /\ i <= iteration /\ ~skipped(i)
  /\ calls' = calls \o <<Call("print", i)>> \o pageBreak(i) \o drawLevels(i, 0)
  /\ i' = i + 1
  /\ UNCHANGED <<numEdges, drawIntermediates, period, capacity, edgeFlows, iteration,
                 prevIteration, flowRows, pc>>
  /\ UNCHANGED <<impVars, bandVars>>

\* the drawing loop ends
drawEnd ==
  /\ pc = "draw" /\ i > iteration
  /\ pc' = "done"
  /\ UNCHANGED <<numEdges, drawIntermediates, period, capacity, edgeFlows, iteration,
                 prevIteration, flowRows, i, calls>>
  /\ UNCHANGED <<impVars, bandVars>>

FlowNext ==
  \/ \E it \in RowIters, fl \in RowFlows : readRow(it, fl)
  \/ readEof
  \/ scaleCapacities
  \/ skipIteration
  \/ drawIteration
  \/ drawEnd

----------------------------------------------------------------------------
Init == ImpInit /\ BandIdle /\ FlowIdle
Next == ImpNext
Spec == Init /\ [][Next]_vars

InitBand == ImpIdle /\ BandInit /\ FlowIdle
NextBand == BandNext
SpecBand == InitBand /\ [][NextBand]_vars

InitFlow == ImpIdle /\ BandIdle /\ FlowInit
NextFlow == FlowNext
SpecFlow == InitFlow /\ [][NextFlow]_vars

----------------------------------------------------------------------------
\* Properties of the importer (Spec).

\* nextVertex has just returned true or failed on the row in row
VertexCalled == phase = "vertices" /\ result \in {"true", "abort"}
\* nextEdge has just returned true or failed on the row in row
EdgeCalled == phase = "edges" /\ result \in {"true", "abort"}

\* the external IDs read by the calls of nextVertex before the last one
EarlierExt ==
  LET n == IF result = "true" THEN Len(vertexLog) - 1 ELSE Len(vertexLog)
  IN  {vertexLog[k].ext : k \in 1 .. n}

\* the internal ID that nextVertex assigned to external ID x
AssignedId(x) == (CHOOSE k \in 1 .. Len(vertexLog) : vertexLog[k].ext = x) - 1

Unresolved(r) == r.tail \notin DOMAIN origToNewIds \/ r.head \notin DOMAIN origToNewIds

\* C1: with n vertices read, the IDs handed out by vertexId() are 0, 1, ..., n-1
\* in read order, and the tail and head of every edge read are in [0, n).
C1_DenseVertexIds ==
  /\ nextVertexId = Len(vertexLog)
  /\ \A k \in 1 .. Len(vertexLog) : vertexLog[k].id = k - 1
  /\ EdgeRead => /\ currentEdge.tail \in 0 .. Len(vertexLog) - 1
                 /\ currentEdge.head \in 0 .. Len(vertexLog) - 1

C1_Witness ==
  /\ EdgeRead /\ Len(vertexLog) = NumExt
  /\ currentEdge.tail = 0 /\ currentEdge.head = NumExt - 1

\* the part of C2 that holds in every state
C2_State ==
  /\ VertexCalled /\ row.id \in EarlierExt
       => err = "duplicate-vertex" /\ result = "abort"
  /\ \A a, b \in DOMAIN origToNewIds : origToNewIds[a] = origToNewIds[b] => a = b
  /\ \A j, k \in 1 .. Len(vertexLog) : vertexLog[j].ext = vertexLog[k].ext => j = k
  /\ nextVertexId = Cardinality(DOMAIN origToNewIds)

\* C2: nextVertex fails with duplicate-vertex on an external ID read before;
\* the map from external to internal IDs is injective, nextVertexId is the
\* number of mapped IDs and never decreases.
C2_NoDuplicates == []C2_State /\ [][nextVertexId' >= nextVertexId]_vars

C2_Witness ==
  /\ VertexCalled /\ err = "duplicate-vertex"
  /\ Len(vertexLog) = NumExt /\ row.id = vertexLog[1].ext

\* whenever nextEdge returns true, tail and head are the IDs nextVertex assigned
C3_Resolved ==
  EdgeRead => /\ currentEdge.tail = AssignedId(row.tail)
              /\ currentEdge.head = AssignedId(row.head)

\* C3 as claimed: an unread tail or head always gives unresolved-endpoint
C3_Original ==
  /\ EdgeCalled /\ Unresolved(row) => err = "unresolved-endpoint"
  /\ C3_Resolved

\* C3: nextEdge fails on every row whose tail or head was never read as a
\* vertex, with unresolved-endpoint unless the capacity or the speed of the row
\* is negative (that assertion comes first); when it returns true, tail and
\* head are the internal IDs nextVertex assigned to the row's external IDs.
C3_UnresolvedEndpoint ==
  /\ EdgeCalled /\ Unresolved(row)
       => /\ result = "abort"
          /\ row.capacity >= 0 /\ row.speed >= 0 => err = "unresolved-endpoint"
  /\ C3_Resolved

C3_Witness ==
  /\ EdgeCalled /\ err = "unresolved-endpoint"
  /\ row.tail \in DOMAIN origToNewIds /\ row.head \notin DOMAIN origToNewIds

\* C4: nextEdge fails with negative-field on every row whose capacity, length
\* or speed field is negative; stated by what follows from it, that nextEdge
\* never returns true for such a row.
C4_NegativeField ==
  EdgeCalled /\ (row.capacity < 0 \/ row.length < 0 \/ row.speed < 0)
    => result # "true"

\* C5: getValue<CapacityAttribute> returns round(c / p) for the period p
\* passed to the constructor and the raw capacity c of the edge.
C5_Capacity ==
  EdgeRead /\ capValue # NoValue
    => capValue = <<round(PeriodDen * row.capacity, periodArg)>>

\* C6: for every accepted edge row getValue<TravelTimeAttribute> returns a
\* well-defined value, round(36 * length / freeFlowSpeed).
C6_TravelTime ==
  EdgeRead /\ ttValue # NoValue
    => /\ currentEdge.freeFlowSpeed # 0
       /\ ttValue = <<round(36 * currentEdge.length, currentEdge.freeFlowSpeed)>>

----------------------------------------------------------------------------
\* Properties of the congestion level (SpecBand).

Classified(v) == v # NoValue
\* flow / capacity >= k * 20%, for a flow f in 1/FlowDen
RatioAtLeast(f, cap, k) == 100 * f >= 20 * k * FlowDen * cap

C7_Monotonic ==
  Classified(bandCur) /\ Classified(bandPrev) /\ bandPrev[1] <= bandCur[1]
    => bandPrev[2] <= bandCur[2]

C8_Band ==
  /\ bandIn.scaled => bandIn.cap >= 1
  /\ Classified(bandCur)
       => /\ bandCur[2] \in 0 .. numLevels - 1
          /\ RatioAtLeast(bandCur[1], bandIn.cap, bandCur[2])
          /\ bandCur[2] < numLevels - 1
               => ~RatioAtLeast(bandCur[1], bandIn.cap, bandCur[2] + 1)

C8_Witness ==
  /\ bandIn.rawCap = 0 /\ bandIn.cap = 1
  /\ Classified(bandCur) /\ Classified(bandPrev)
  /\ bandPrev[2] = 2 /\ bandCur[2] = numLevels - 1 /\ bandCur[1] > 2 * FlowDen

----------------------------------------------------------------------------
\* Properties of the flow draw mode (SpecFlow).

Accepted == pc \in {"scale", "draw", "done"}

\* rows grouped by iteration 1, 2, ..., K, each with numEdges rows, flows >= 0
WellFormed(rows) ==
  /\ \A k \in 1 .. Len(rows) : rows[k].flow >= 0
  /\ IF numEdges = 0 THEN rows = <<>>
     ELSE /\ Len(rows) % numEdges = 0
          /\ \A k \in 1 .. Len(rows) : rows[k].iteration = (k - 1) \div numEdges + 1

\* C9: the reader accepts only well-formed flow tables, and rejects the others
\* before any drawing call.
C9_Reader ==
  /\ Accepted => WellFormed(flowRows)
  /\ pc \in {"read", "scale", "failed"} => calls = <<>>

\* the sequence of the arguments of the calls of op
RECURSIVE argsOf(_, _)
argsOf(cs, op) ==
  IF cs = <<>> THEN <<>>
  ELSE (IF Head(cs).op = op THEN <<Head(cs).arg>> ELSE <<>>) \o argsOf(Tail(cs), op)

\* 1, 2, ..., k
RECURSIVE upTo(_)
upTo(k) == IF k <= 0 THEN <<>> ELSE Append(upTo(k - 1), k)

ExpectedDrawn ==
  IF drawIntermediates THEN upTo(iteration)
  ELSE IF iteration = 1 THEN <<1>> ELSE <<1, iteration>>

\* C10: with an accepted table of K >= 1 iterations, the iterations drawn are
\* 1..K (or 1 and K without the draw-intermediates flag), in ascending order;
\* newPage is called once right at the start of each drawn iteration but the
\* first, so the pages are as many as the drawn iterations.
C10_Pages ==
  pc = "done" /\ Len(flowRows) >= 1
    => /\ iteration >= 1 /\ Len(edgeFlows) = iteration * numEdges
       /\ argsOf(calls, "print") = ExpectedDrawn
       /\ Len(argsOf(calls, "newPage")) + 1 = Len(ExpectedDrawn)
       /\ \A k \in 1 .. Len(calls) :
            /\ calls[k].op = "print" /\ calls[k].arg # 1
                 => calls[k + 1].op = "newPage"
            /\ calls[k].op = "print" /\ calls[k].arg = 1
                 => calls[k + 1].op # "newPage"
            /\ calls[k].op = "newPage" => k > 1 /\ calls[k - 1].op = "print"

C10_Witness ==
  /\ pc = "done" /\ Len(flowRows) = 3 /\ iteration = 3 /\ ~drawIntermediates
  /\ argsOf(calls, "print") = <<1, 3>> /\ Len(argsOf(calls, "newPage")) = 1

\* the index after the calls of the flow pattern whose print is at index k
SegmentEnd(k) ==
  LET later == {q \in k + 1 .. Len(calls) : calls[q].op = "print"}
  IN  IF later = {} THEN Len(calls) + 1
      ELSE CHOOSE q \in later : \A r \in later : q <= r

\* the argument of the last setColor before index p
ColorAt(p) ==
  calls[CHOOSE q \in 1 .. p - 1 :
          /\ calls[q].op = "setColor"
          /\ \A r \in q + 1 .. p - 1 : calls[r].op # "setColor"].arg

\* b is the band of the 20% steps for the flow of edge e in the rows of iteration it
IsBandOf(b, it, e) ==
  LET f == flowRows[(it - 1) * numEdges + e + 1].flow
  IN  /\ b \in 0 .. numLevels - 1
      /\ RatioAtLeast(f, capacity[e], b)
      /\ b < numLevels - 1 => ~RatioAtLeast(f, capacity[e], b + 1)

\* C11: in each drawn iteration every edge is drawn exactly once, in the band
\* of that iteration's own flow of the edge; the edges come grouped by band in
\* increasing band order, with exactly one setColor per band before its edges.
C11_EdgesByBand ==
  \A k \in 1 .. Len(calls) :
    calls[k].op = "print" =>
      LET it  == calls[k].arg
          seg == SubSeq(calls, k + 1, SegmentEnd(k) - 1)
          drawn(e) == {p \in k + 1 .. SegmentEnd(k) - 1 :
                         calls[p].op = "drawLine" /\ calls[p].arg = e}
      IN  /\ argsOf(seg, "setColor") = upTo(numLevels)
          /\ Len(argsOf(seg, "drawLine")) = numEdges
          /\ \A e \in 0 .. numEdges - 1 :
               /\ Cardinality(drawn(e)) = 1
               /\ \A p \in drawn(e) :
                    /\ calls[p - 1] = Call("setLineWidth", e)
                    /\ IsBandOf(ColorAt(p) - 1, it, e)

C11_Witness ==
  /\ pc = "done" /\ numEdges = 2 /\ Len(flowRows) = 4
  /\ flowRows[1].flow = 3 /\ flowRows[2].flow = 0
  /\ flowRows[3].flow = 0 /\ flowRows[4].flow = 3
  /\ argsOf(calls, "print") = <<1, 2>>
  /\ argsOf(calls, "drawLine") = <<1, 0, 0, 1>>
====
